---------------------------- MODULE Spec2Model ----------------------------
(***************************************************************************)
(* Model of the log benchmark: the synthetic workload generator            *)
(* (src/generator.py) and the aggregation backends (src/ex-polars/main.py, *)
(* src/ex-spark/main.py, src/ex-pandas/main.py, src/ex-duckdb/main.py).    *)
(*                                                                         *)
(* Text is modelled as a sequence of characters in which the literal       *)
(* "HTTP Status Code: " is one character (PREFIX), the ten digits are the  *)
(* strings "0".."9" and "x" stands for any other character.                *)
(*                                                                         *)
(* A float that the code rounds to 4 decimals is the record                *)
(* [fin |-> TRUE, e4 |-> n] standing for n / 10000, and                    *)
(* [fin |-> FALSE, e4 |-> 0] is the IEEE infinity.                         *)
(***************************************************************************)
EXTENDS Integers, Sequences, FiniteSets, TLC

VARIABLES
    \* ---- classifier harness
    message,        \* the message handed to a classifier (or Absent)
    engine,         \* which backend's classifier ran ("none" before)
    group,          \* the group it returned
    \* ---- aggregation run
    input_s3_url,   \* main's input_s3_url
    io,             \* the clients, sessions and requests the run has made
    objects,        \* the stored objects under the prefix, in listing order
    apc,            \* position of the aggregation run
    idx,            \* number of listed objects already processed
    listed,         \* the objects the listing has yielded, in its order
    all_timestamps, \* polars main: all_timestamps
    status_counts,  \* polars main: status_counts
    backend,        \* the backend whose main runs ("none" before it starts)
    result,         \* the Result returned by main (NoResult before)
    \* ---- generator run
    tz,             \* the host's time zone: "utc", or "dst" with a spring-forward
    run,            \* "first" or "second" run of generator main
    gpc,            \* position of generator main
    num_files,      \* main's num_files
    events_per_file,\* main's events_per_file
    writer,         \* main's writer: "local" (_LocalWriter) or "s3" (_S3Writer)
    wall,           \* datetime.now() as the generator read it (local seconds)
    gen,            \* the generator's frame: the state of random, and now
    stream,         \* the events the generator has yielded in this run
    first_stream,   \* the events it yielded in the first run
    futures,        \* main's futures, in submit order
    uuids,          \* the names uuid4 has returned
    sink,           \* the objects stored under this run's prefix or directory
    readback        \* per stored object read back: what the reader extracted

clvars  == <<message, engine, group>>
aggvars == <<input_s3_url, io, objects, apc, idx, listed, all_timestamps, status_counts, backend, result>>
genvars == <<tz, run, gpc, num_files, events_per_file, writer, wall, gen,
             stream, first_stream, futures, uuids, sink, readback>>

vars == <<clvars, aggvars, genvars>>

\* the generator has not been called
GenIdle ==
    /\ tz = "utc"
    /\ run = "first"
    /\ gpc = "idle"
    /\ num_files = 0
    /\ events_per_file = 0
    /\ writer = "local"
    /\ wall = 0
    /\ gen = [rng |-> 0, now |-> 0]
    /\ stream = <<>>
    /\ first_stream = <<>>
    /\ futures = <<>>
    /\ uuids = {}
    /\ sink = {}
    /\ readback = {}

-----------------------------------------------------------------------------
(* Text                                                                     *)

PREFIX == "HTTP Status Code: "

DigitStr == <<"0", "1", "2", "3", "4", "5", "6", "7", "8", "9">>

Digits == {DigitStr[i] : i \in 1..Len(DigitStr)}

DigitVal(c) == (CHOOSE i \in 1..Len(DigitStr) : DigitStr[i] = c) - 1

\* a field that the JSON object does not have / Python None
Absent == <<"absent">>

\* int(s) for a string of digits
RECURSIVE int(_)
int(s) == IF s = <<>> THEN 0
          ELSE 10 * int(SubSeq(s, 1, Len(s) - 1)) + DigitVal(s[Len(s)])

AllDigits(s) == \A i \in 1..Len(s) : s[i] \in Digits

\* the positions at which re "HTTP Status Code: (\d{3})" matches
MatchAt(msg) == {i \in 1..Len(msg) : /\ msg[i] = PREFIX
                                      /\ i + 3 <= Len(msg)
                                      /\ AllDigits(SubSeq(msg, i + 1, i + 3))}

Min(S) == CHOOSE x \in S : \A y \in S : x <= y
Max(S) == CHOOSE x \in S : \A y \in S : x >= y

\* STATUS_CODE_PATTERN.search(msg): group(1) of the first match, or Absent
STATUS_CODE_PATTERN(msg) ==
    IF MatchAt(msg) = {} THEN Absent
    ELSE LET i == Min(MatchAt(msg)) IN SubSeq(msg, i + 1, i + 3)

-----------------------------------------------------------------------------
(* Classifiers                                                              *)

\* a classifier with the upper bound of 2xx off by one
get_status_code_group_off(code) ==
    IF 200 <= code /\ code < 299 THEN "2xx"
    ELSE IF 400 <= code /\ code <= 499 THEN "4xx"
    ELSE IF 500 <= code /\ code <= 599 THEN "5xx"
    ELSE "other"

\* ex-polars get_status_code_group
get_status_code_group(code) ==
    IF 200 <= code /\ code <= 299 THEN "2xx"
    ELSE IF 400 <= code /\ code <= 499 THEN "4xx"
    ELSE IF 500 <= code /\ code <= 599 THEN "5xx"
    ELSE "other"

\* ex-polars main, lines 75-78: event.get("message", ""), search, int, group;
\* "nomatch" when the pattern does not match
polars_group(msg) ==
    LET text == IF msg = Absent THEN <<>> ELSE msg
        m    == STATUS_CODE_PATTERN(text)
    IN IF m = Absent THEN "nomatch" ELSE get_status_code_group(int(m))

\* message.split("HTTP Status Code: ")[1], or Absent when split gives one part
SplitSecond(msg) ==
    LET ps == {i \in 1..Len(msg) : msg[i] = PREFIX}
    IN IF ps = {} THEN Absent
       ELSE LET first == Min(ps)
                rest  == {i \in ps : i > first}
                stop  == IF rest = {} THEN Len(msg) + 1 ELSE Min(rest)
            IN SubSeq(msg, first + 1, stop - 1)

\* ex-spark status_group_udf.  int() of a string that is empty or holds a
\* character that is no digit raises (or, for a sign, blank or underscore,
\* gives a number below 200): "other" either way.
status_group_udf(msg) ==
    IF msg = Absent \/ msg = <<>> THEN "other"
    ELSE LET part == SplitSecond(msg)
         IN IF part = Absent THEN "other"
            ELSE LET code_str == SubSeq(part, 1, IF Len(part) < 3 THEN Len(part) ELSE 3)
                 IN IF code_str = <<>> \/ ~AllDigits(code_str) THEN "other"
                    ELSE LET code == int(code_str)
                         IN IF 200 <= code /\ code <= 299 THEN "2xx"
                            ELSE IF 400 <= code /\ code <= 499 THEN "4xx"
                            ELSE IF 500 <= code /\ code <= 599 THEN "5xx"
                            ELSE "other"

\* ex-pandas get_status_code_group on one cell; the cell is the extracted
\* string, Absent for NaN, and every comparison with NaN is false
pandas_get_status_code_group(code_str) ==
    IF code_str = Absent THEN "other"
    ELSE LET code == int(code_str)
         IN IF code >= 500 /\ code <= 599 THEN "5xx"
            ELSE IF code >= 400 /\ code <= 499 THEN "4xx"
            ELSE IF code >= 200 /\ code <= 299 THEN "2xx"
            ELSE "other"

\* ex-pandas extract_codes_and_group on one row: str.extract, to_numeric, group
pandas_group(msg) ==
    pandas_get_status_code_group(
        IF msg = Absent THEN Absent ELSE STATUS_CODE_PATTERN(msg))

-----------------------------------------------------------------------------
(* JSON text: a sequence of tokens.  A token is a bracket, a comma, a line *)
(* break, the text of one JSON object or the text of one JSON number.      *)

Tok(s)    == [t |-> s]
ObjTok(e) == [t |-> "obj", v |-> e]
NumTok    == [t |-> "num"]

IsValue(tok) == tok.t \in {"obj", "num"}

RECURSIVE Join(_, _)
Join(toks, sep) ==
    IF Len(toks) = 0 THEN <<>>
    ELSE IF Len(toks) = 1 THEN <<toks[1]>>
    ELSE <<toks[1], sep>> \o Join(Tail(toks), sep)

\* json.dumps of one event dict
json_dumps(event) == ObjTok(event)

\* json.dumps of a list of JSON values
json_dumps_list(items) == <<Tok("[")>> \o Join(items, Tok(",")) \o <<Tok("]")>>

NoDecode == [ok |-> FALSE]

\* json.loads: a list, a single object, a single number, or JSONDecodeError
json_loads(text) ==
    LET n     == Len(text)
        inner == SubSeq(text, 2, n - 1)
        m     == Len(inner)
    IN IF n = 1 /\ text[1].t = "obj" THEN [ok |-> TRUE, kind |-> "dict", v |-> text[1].v]
       ELSE IF n = 1 /\ text[1].t = "num" THEN [ok |-> TRUE, kind |-> "num"]
       ELSE IF /\ n >= 2
               /\ text[1].t = "[" /\ text[n].t = "]"
               /\ (m = 0 \/ m % 2 = 1)
               /\ \A i \in 1..m : IF i % 2 = 1 THEN IsValue(inner[i])
                                               ELSE inner[i].t = ","
            THEN [ok |-> TRUE, kind |-> "list",
                  items |-> [i \in 1..((m + 1) \div 2) |-> inner[2 * i - 1]]]
       ELSE NoDecode

-----------------------------------------------------------------------------
(* Floats                                                                   *)

Fin(n) == [fin |-> TRUE, e4 |-> n]
Inf    == [fin |-> FALSE, e4 |-> 0]
Zero   == Fin(0)

\* round(n / d, 4) for d > 0, in ten-thousandths, ties to even
round4(n, d) ==
    LET q == (n * 10000) \div d
        r == (n * 10000) % d
    IN Fin(IF 2 * r > d THEN q + 1
           ELSE IF 2 * r = d THEN q + (q % 2)
           ELSE q)

SeqToSet(s) == {s[i] : i \in 1..Len(s)}

-----------------------------------------------------------------------------
(* Results                                                                  *)

NoResult == [status |-> "none"]

\* main left by an exception that nothing catches
Raised == [status |-> "raised"]

\* main left by the ValueError of parse_s3_url
ValueError == [status |-> "raised", error |-> "ValueError"]

\* the Result of ex-polars and ex-spark
Result(lps, r2, r4, r5) ==
    [status |-> "ok", logs_per_second |-> lps,
     rate_2xx |-> r2, rate_4xx |-> r4, rate_5xx |-> r5]

\* the Result of ex-pandas and ex-duckdb: the three rates, no logs_per_second
Rates(r2, r4, r5) ==
    [status |-> "ok", rate_2xx |-> r2, rate_4xx |-> r4, rate_5xx |-> r5]

-----------------------------------------------------------------------------
(* The input location: a sequence of parts, "://" and "/" each one part     *)

\* urllib.parse.urlparse: the scheme is what stands before "://" (none when
\* the text has no "://"), the netloc what follows it up to the next "/",
\* the path the rest
urlparse(url) ==
    IF Len(url) >= 2 /\ url[2] = "://"
    THEN [scheme |-> url[1],
          netloc |-> IF Len(url) >= 3 /\ url[3] # "/" THEN url[3] ELSE "",
          path   |-> IF Len(url) >= 3 /\ url[3] # "/"
                     THEN SubSeq(url, 4, Len(url)) ELSE SubSeq(url, 3, Len(url))]
    ELSE [scheme |-> "", netloc |-> "", path |-> url]

\* str.lstrip('/') and str.rstrip('/')
RECURSIVE lstrip(_)
lstrip(path) ==
    IF path # <<>> /\ Head(path) = "/" THEN lstrip(Tail(path)) ELSE path

RECURSIVE rstrip(_)
rstrip(path) ==
    IF path # <<>> /\ path[Len(path)] = "/"
    THEN rstrip(SubSeq(path, 1, Len(path) - 1)) ELSE path

\* parse_s3_url of ex-polars, ex-pandas and ex-spark: ok is FALSE when it
\* raises ValueError
parse_s3_url(url) ==
    LET parsed == urlparse(url)
    IN IF parsed.scheme # "s3" THEN [ok |-> FALSE]
       ELSE [ok |-> TRUE, bucket |-> parsed.netloc,
             prefix |-> rstrip(lstrip(parsed.path))]

\* parse_s3_url of ex-duckdb: the glob of the query
duckdb_parse_s3_url(url) ==
    LET parsed == urlparse(url)
    IN IF parsed.scheme # "s3" THEN [ok |-> FALSE]
       ELSE [ok |-> TRUE, glob |-> rstrip(url) \o <<"/", "*.json">>]

-----------------------------------------------------------------------------
(* ex-polars main                                                           *)

\* lines 47-48
PolarsInit == [all_timestamps |-> <<>>,
               status_counts  |-> [k \in {"2xx", "4xx", "5xx", "total"} |-> 0]]

\* lines 69-82: the loop over the decoded list; an element that is no dict
\* raises TypeError at `"timestamp" in event`, which leaves the loop with
\* what the earlier events of the object have already added
RECURSIVE polars_events(_, _, _)
polars_events(items, ts, sc) ==
    IF items = <<>> THEN [all_timestamps |-> ts, status_counts |-> sc]
    ELSE LET item == Head(items)
         IN IF item.t # "obj" THEN [all_timestamps |-> ts, status_counts |-> sc]
            ELSE LET event == item.v
                     ts1 == IF "timestamp" \in DOMAIN event
                            THEN Append(ts, event.timestamp) ELSE ts
                     g   == polars_group(IF "message" \in DOMAIN event
                                         THEN event.message ELSE Absent)
                     sc1 == IF g = "nomatch" THEN sc
                            ELSE LET scg == IF g \in DOMAIN sc
                                            THEN [sc EXCEPT ![g] = @ + 1] ELSE sc
                                 IN [scg EXCEPT !["total"] = @ + 1]
                 IN polars_events(Tail(items), ts1, sc1)

\* lines 59-86: one listed object.  A key ending in "/" is skipped; a failed
\* get_object or json.loads is caught; a decoded dict is iterated by its keys
\* (strings) and a decoded number is not iterable: both raise before anything
\* is added.
polars_object(obj, acc) ==
    IF obj.key = "dir/" \/ ~obj.readable THEN acc
    ELSE LET events == json_loads(obj.body)
         IN IF ~events.ok THEN acc
            ELSE IF events.kind = "list"
                 THEN polars_events(events.items, acc.all_timestamps, acc.status_counts)
            ELSE acc

\* a finish that takes the first timestamp appended for the smallest one
polars_finish_first(acc) ==
    LET ts         == acc.all_timestamps
        counts     == acc.status_counts
        total_logs == Len(ts)
        duration   == Max(SeqToSet(ts)) - ts[1]
        rate_per_second ==
            IF total_logs >= 2
            THEN (IF duration = 0 THEN Inf ELSE round4(total_logs, duration))
            ELSE Zero
        total_counted_status == counts["total"]
    IN IF total_counted_status = 0
       THEN Result(rate_per_second, Zero, Zero, Zero)
       ELSE Result(rate_per_second,
                   round4(counts["2xx"], total_counted_status),
                   round4(counts["4xx"], total_counted_status),
                   round4(counts["5xx"], total_counted_status))

\* lines 88-123
polars_finish(acc) ==
    LET ts         == acc.all_timestamps
        counts     == acc.status_counts
        total_logs == Len(ts)
        duration   == Max(SeqToSet(ts)) - Min(SeqToSet(ts))
        rate_per_second ==
            IF total_logs >= 2
            THEN (IF duration = 0 THEN Inf ELSE round4(total_logs, duration))
            ELSE Zero
        total_counted_status == counts["total"]
    IN IF total_counted_status = 0
       THEN Result(rate_per_second, Zero, Zero, Zero)
       ELSE Result(rate_per_second,
                   round4(counts["2xx"], total_counted_status),
                   round4(counts["4xx"], total_counted_status),
                   round4(counts["5xx"], total_counted_status))

\* the whole of ex-polars main on a listing
RECURSIVE polars_fold(_, _)
polars_fold(objs, acc) ==
    IF objs = <<>> THEN acc
    ELSE polars_fold(Tail(objs), polars_object(Head(objs), acc))

polars_main(objs) == polars_finish(polars_fold(objs, PolarsInit))

-----------------------------------------------------------------------------
(* ex-spark main                                                            *)

\* An object that spark.read.json(multiLine) turns into one row per event:
\* a readable JSON array of objects.  What the reader does with any other
\* object, or with a prefix that holds no object, is decided inside Spark
\* and is not modelled: the Spark run is modelled on listings of at least
\* one object, all of this kind.
SparkClean(obj) ==
    /\ obj.key # "dir/"
    /\ obj.readable
    /\ json_loads(obj.body).ok
    /\ json_loads(obj.body).kind = "list"
    /\ \A i \in 1..Len(json_loads(obj.body).items) :
           json_loads(obj.body).items[i].t = "obj"

\* lines 87-92: the DataFrame, one row per event, a missing field null
RECURSIVE spark_read_json(_)
spark_read_json(objs) ==
    IF objs = <<>> THEN <<>>
    ELSE LET items == json_loads(Head(objs).body).items
         IN [i \in 1..Len(items) |-> items[i].v] \o spark_read_json(Tail(objs))

CountGroup(df, g) ==
    Cardinality({i \in 1..Len(df) :
        status_group_udf(IF "message" \in DOMAIN df[i]
                         THEN df[i].message ELSE Absent) = g})

\* lines 98-155
spark_main(df) ==
    LET total_logs == Len(df)
        tss        == {df[i].timestamp : i \in {j \in 1..Len(df) :
                                                "timestamp" \in DOMAIN df[j]}}
    IN IF total_logs < 2 THEN Result(Zero, Zero, Zero, Zero)
       ELSE IF tss = {} THEN Raised    \* None - None
       ELSE LET total_duration_seconds == Max(tss) - Min(tss)
                logs_per_second ==
                    IF total_duration_seconds > 0
                    THEN round4(total_logs, total_duration_seconds) ELSE Zero
                c2 == CountGroup(df, "2xx")
                c4 == CountGroup(df, "4xx")
                c5 == CountGroup(df, "5xx")
                total_counted_status == c2 + c4 + c5
            IN IF total_counted_status = 0
               THEN Result(logs_per_second, Zero, Zero, Zero)
               ELSE Result(logs_per_second,
                           round4(c2, total_counted_status),
                           round4(c4, total_counted_status),
                           round4(c5, total_counted_status))

-----------------------------------------------------------------------------
(* ex-pandas main                                                           *)

\* The pandas and DuckDB runs are modelled on listings in which every object
\* is a directory marker, an object whose read fails, or a JSON array of
\* objects: what pd.read_json and read_json_auto make of other bodies is
\* decided inside the libraries.
FrameClean(obj) == obj.key = "dir/" \/ ~obj.readable \/ SparkClean(obj)

\* lines 64-83: all_dfs, one frame per object that was read and parsed.
\* pandas is not pinned (line 3): a release that parses a JSON string handed
\* to pd.read_json has literal_json TRUE; one that takes the string for a
\* path raises for every object, and the exception is swallowed.
all_dfs(objs, literal_json) ==
    IF literal_json THEN SelectSeq(objs, SparkClean) ELSE <<>>

\* line 90: pd.concat, one row per event, a missing field NaN
RECURSIVE pandas_concat(_)
pandas_concat(dfs) ==
    IF dfs = <<>> THEN <<>>
    ELSE LET items == json_loads(Head(dfs).body).items
         IN [i \in 1..Len(items) |-> items[i].v] \o pandas_concat(Tail(dfs))

\* lines 93-96: the rows of a group after extract_codes_and_group
value_counts(df, g) ==
    Cardinality({i \in 1..Len(df) :
        pandas_group(IF "message" \in DOMAIN df[i]
                     THEN df[i].message ELSE Absent) = g})

\* lines 86-110.  df['message'] raises KeyError outside the try when no
\* frame has the column.
pandas_main(objs, literal_json) ==
    IF all_dfs(objs, literal_json) = <<>> THEN Rates(Zero, Zero, Zero)
    ELSE LET df == pandas_concat(all_dfs(objs, literal_json))
         IN IF \A i \in 1..Len(df) : "message" \notin DOMAIN df[i] THEN Raised
            ELSE LET c2 == value_counts(df, "2xx")
                     c4 == value_counts(df, "4xx")
                     c5 == value_counts(df, "5xx")
                     total_events == c2 + c4 + c5
                 IN IF total_events = 0 THEN Rates(Zero, Zero, Zero)
                    ELSE Rates(round4(c2, total_events),
                               round4(c4, total_events),
                               round4(c5, total_events))

-----------------------------------------------------------------------------
(* ex-duckdb main                                                           *)

\* lines 79: read_json_auto over the glob, one row per event of the arrays
\* that could be read
RECURSIVE read_json_auto(_)
read_json_auto(objs) ==
    IF objs = <<>> THEN <<>>
    ELSE LET items == json_loads(Head(objs).body).items
         IN [i \in 1..Len(items) |-> items[i].v] \o read_json_auto(Tail(objs))

\* lines 73-77: regexp_extract gives the empty string when the pattern does
\* not match and NULL (Absent) for a NULL message
regexp_extract(msg) ==
    IF msg = Absent THEN Absent
    ELSE IF MatchAt(msg) = {} THEN <<>>
    ELSE STATUS_CODE_PATTERN(msg)

\* lines 83-88
duckdb_status_group(code) ==
    IF 200 <= code /\ code <= 299 THEN "2xx"
    ELSE IF 400 <= code /\ code <= 499 THEN "4xx"
    ELSE IF 500 <= code /\ code <= 599 THEN "5xx"
    ELSE "other"

\* lines 70-135, given that credentials and httpfs were obtained.  The query
\* fails, and main returns zeros, when an object under the glob cannot be
\* read, when no row has a message column, or when the cast of an empty
\* extract to INTEGER fails.
duckdb_query(objs) ==
    LET files == SelectSeq(objs, LAMBDA o : o.key # "dir/")
        rows  == read_json_auto(SelectSeq(files, SparkClean))
        codes == [i \in 1..Len(rows) |->
                     regexp_extract(IF "message" \in DOMAIN rows[i]
                                    THEN rows[i].message ELSE Absent)]
        Count(g) == Cardinality({i \in 1..Len(codes) :
                        /\ codes[i] # Absent
                        /\ duckdb_status_group(int(codes[i])) = g})
    IN IF \/ files = <<>>
          \/ \E i \in 1..Len(files) : ~files[i].readable
          \/ \A i \in 1..Len(rows) : "message" \notin DOMAIN rows[i]
          \/ \E i \in 1..Len(codes) : codes[i] = <<>>
       THEN Rates(Zero, Zero, Zero)
       ELSE LET c2 == Count("2xx")
                c4 == Count("4xx")
                c5 == Count("5xx")
                total_events == c2 + c4 + c5
            IN IF total_events = 0 THEN Rates(Zero, Zero, Zero)
               ELSE Rates(round4(c2, total_events),
                          round4(c4, total_events),
                          round4(c5, total_events))

\* lines 36-53 and 104-135: env is FALSE when the credentials or the httpfs
\* extension cannot be obtained
duckdb_main(objs, env) ==
    IF ~env THEN Rates(Zero, Zero, Zero) ELSE duckdb_query(objs)

-----------------------------------------------------------------------------
(* Inputs                                                                   *)

MaxObjects == 2     \* objects under the prefix
MaxBatch   == 2     \* elements of one stored array
MaxRecords == 3     \* elements of all stored arrays together

Code(a, b, c) == <<PREFIX, a, b, c>>

\* every message of the generator's shape, with any three digits
ThreeDigit == {Code(a, b, c) : a \in Digits, b \in Digits, c \in Digits}

\* short texts that hold the prefix anywhere, fewer or more digits, other text
Irregular == UNION {[1..n -> {PREFIX, "2", "0", "x"}] : n \in 0..4}

ClassifierInputs == ThreeDigit \cup Irregular \cup {Absent}

TsPool  == {100, 130}
MsgPool == {Code("2", "0", "0"), Code("4", "0", "4"),
            Code("5", "0", "0"), Code("3", "0", "0")}

PoolEvents ==
    {[service |-> "training", timestamp |-> t, message |-> m] :
        t \in TsPool, m \in MsgPool}
    \cup {[service |-> "training", timestamp |-> 100]}

\* the elements of a stored array: event objects, and a number
PoolItems == {json_dumps(e) : e \in PoolEvents} \cup {NumTok}

File(body) == [key |-> "f", readable |-> TRUE, body |-> body]

AnEvent == [service |-> "training", timestamp |-> 100,
            message |-> Code("2", "0", "0")]

ObjectPool ==
    {File(json_dumps_list(s)) :
        s \in UNION {[1..n -> PoolItems] : n \in 0..MaxBatch}}
    \cup {\* an object whose get_object fails
          [key |-> "f", readable |-> FALSE, body |-> <<>>],
          \* a directory marker
          [key |-> "dir/", readable |-> TRUE, body |-> <<>>],
          \* one JSON object per line
          File(Join(<<json_dumps(AnEvent), json_dumps(AnEvent)>>, Tok("\n"))),
          \* a single JSON object
          File(<<json_dumps(AnEvent)>>)}

\* input locations: s3://bucket/5gb, file:///data and the bare path /data
UrlPool == {<<"s3", "://", "bucket", "/", "5gb">>,
            <<"file", "://", "/", "data">>,
            <<"/", "data">>}

\* the elements of the array an object holds (none when it holds no array)
Items(obj) ==
    LET d == json_loads(obj.body)
    IN IF obj.key # "dir/" /\ obj.readable /\ d.ok /\ d.kind = "list"
       THEN d.items ELSE <<>>

RECURSIVE ItemCount(_)
ItemCount(objs) ==
    IF objs = <<>> THEN 0 ELSE Len(Items(Head(objs))) + ItemCount(Tail(objs))

-----------------------------------------------------------------------------
(* The classifier harness: one message, one backend's classifier           *)

AggIdle ==
    /\ input_s3_url = <<>>
    /\ io = {}
    /\ objects = <<>>
    /\ apc = "idle"
    /\ idx = 0
    /\ listed = <<>>
    /\ all_timestamps = <<>>
    /\ status_counts = PolarsInit.status_counts
    /\ backend = "none"
    /\ result = NoResult

ClIdle ==
    /\ message = Absent
    /\ engine = "none"
    /\ group = "none"

ClassifyInit ==
    /\ message \in ClassifierInputs
    /\ engine = "none"
    /\ group = "none"
    /\ AggIdle
    /\ GenIdle

ClassifyPolars ==
    /\ engine = "none"
    /\ engine' = "polars"
    /\ group' = polars_group(message)
    /\ UNCHANGED <<message, aggvars, genvars>>

ClassifySpark ==
    /\ engine = "none"
    /\ engine' = "spark"
    /\ group' = status_group_udf(message)
    /\ UNCHANGED <<message, aggvars, genvars>>

ClassifyPandas ==
    /\ engine = "none"
    /\ engine' = "pandas"
    /\ group' = pandas_group(message)
    /\ UNCHANGED <<message, aggvars, genvars>>

ClassifyNext == ClassifyPolars \/ ClassifySpark \/ ClassifyPandas

SpecClassify == ClassifyInit /\ [][ClassifyNext]_vars

-----------------------------------------------------------------------------
(* The aggregation run: objects are put under the prefix, then one         *)
(* backend's main runs over them                                           *)

AggInit ==
    /\ ClIdle
    /\ GenIdle
    /\ input_s3_url \in UrlPool
    /\ io = {}
    /\ objects = <<>>
    /\ apc = "put"
    /\ idx = 0
    /\ listed = <<>>
    /\ all_timestamps = PolarsInit.all_timestamps
    /\ status_counts = PolarsInit.status_counts
    /\ backend = "none"
    /\ result = NoResult

PutObject ==
    /\ apc = "put"
    /\ Len(objects) < MaxObjects
    /\ \E obj \in ObjectPool :
         /\ ItemCount(objects) + Len(Items(obj)) <= MaxRecords
         /\ objects' = Append(objects, obj)
    /\ UNCHANGED <<input_s3_url, io, apc, idx, all_timestamps, status_counts,
                   backend, result, listed, clvars, genvars>>

\* ex-polars main, lines 43-53: parse_s3_url, then the client and the
\* paginator; the ValueError of parse_s3_url leaves main
PolarsStart ==
    /\ apc = "put"
    /\ backend' = "polars"
    /\ all_timestamps' = PolarsInit.all_timestamps
    /\ status_counts' = PolarsInit.status_counts
    /\ IF parse_s3_url(input_s3_url).ok
       THEN /\ io' = io \cup {"boto3.client", "list_objects_v2"}
            /\ apc' = "polars"
            /\ UNCHANGED result
       ELSE /\ result' = ValueError
            /\ apc' = "done"
            /\ UNCHANGED io
    /\ UNCHANGED <<input_s3_url, objects, idx, listed, clvars, genvars>>

\* ex-polars main, lines 55-86: the next listed object
PolarsObject ==
    /\ apc = "polars"
    /\ idx < Len(objects)
    /\ LET acc == polars_object(objects[idx + 1],
                                [all_timestamps |-> all_timestamps,
                                 status_counts  |-> status_counts])
       IN /\ all_timestamps' = acc.all_timestamps
          /\ status_counts' = acc.status_counts
    /\ io' = IF objects[idx + 1].key = "dir/" THEN io ELSE io \cup {"get_object"}
    /\ idx' = idx + 1
    /\ listed' = Append(listed, idx + 1)
    /\ UNCHANGED <<input_s3_url, objects, apc, backend, result, clvars, genvars>>

\* ex-polars main, lines 88-123
PolarsReturn ==
    /\ apc = "polars"
    /\ idx = Len(objects)
    /\ result' = polars_finish([all_timestamps |-> all_timestamps,
                                status_counts  |-> status_counts])
    /\ apc' = "done"
    /\ UNCHANGED <<input_s3_url, io, objects, idx, all_timestamps, status_counts,
                   backend, listed, clvars, genvars>>

\* ex-spark main, lines 70-155: the session, then the read of
\* input_s3_url + "/*"; main does not call parse_s3_url
SparkMain ==
    /\ apc = "put"
    /\ objects # <<>>
    /\ \A i \in 1..Len(objects) : SparkClean(objects[i])
    /\ backend' = "spark"
    /\ io' = io \cup {"SparkSession", "spark.read.json"}
    /\ result' = spark_main(spark_read_json(objects))
    /\ apc' = "done"
    /\ UNCHANGED <<input_s3_url, objects, idx, all_timestamps, status_counts,
                   listed, clvars, genvars>>

\* ex-pandas main, lines 46-110
PandasMain ==
    /\ apc = "put"
    /\ \A i \in 1..Len(objects) : FrameClean(objects[i])
    /\ backend' = "pandas"
    /\ IF parse_s3_url(input_s3_url).ok
       THEN /\ io' = io \cup {"boto3.client", "list_objects_v2"}
                       \cup (IF \E i \in 1..Len(objects) : objects[i].key # "dir/"
                             THEN {"get_object"} ELSE {})
            /\ \E literal_json \in BOOLEAN :
                   result' = pandas_main(objects, literal_json)
       ELSE /\ result' = ValueError
            /\ UNCHANGED io
    /\ apc' = "done"
    /\ UNCHANGED <<input_s3_url, objects, idx, all_timestamps, status_counts,
                   listed, clvars, genvars>>

\* ex-duckdb main, lines 30-135
DuckdbMain ==
    /\ apc = "put"
    /\ \A i \in 1..Len(objects) : FrameClean(objects[i])
    /\ backend' = "duckdb"
    /\ IF duckdb_parse_s3_url(input_s3_url).ok
       THEN \E env \in BOOLEAN :
              /\ io' = io \cup {"boto3.Session"}
                         \cup (IF env THEN {"duckdb.connect", "read_json_auto"}
                               ELSE {})
              /\ result' = duckdb_main(objects, env)
       ELSE /\ result' = ValueError
            /\ UNCHANGED io
    /\ apc' = "done"
    /\ UNCHANGED <<input_s3_url, objects, idx, all_timestamps, status_counts,
                   listed, clvars, genvars>>

AggNext ==
    \/ PutObject
    \/ PolarsStart \/ PolarsObject \/ PolarsReturn
    \/ SparkMain
    \/ PandasMain
    \/ DuckdbMain

SpecAgg == AggInit /\ [][AggNext]_vars

-----------------------------------------------------------------------------
(* The polars run over a listing that yields the stored objects in any     *)
(* order                                                                    *)

\* elements of a stored array: two events that differ in timestamp and in
\* class, and a number
OrderItems == {json_dumps([service |-> "training", timestamp |-> 100,
                           message |-> Code("2", "0", "0")]),
               json_dumps([service |-> "training", timestamp |-> 130,
                           message |-> Code("3", "0", "0")]),
               NumTok}

OrderPool ==
    {File(json_dumps_list(s)) :
        s \in UNION {[1..n -> OrderItems] : n \in 0..MaxBatch}}
    \cup {[key |-> "f", readable |-> FALSE, body |-> <<>>]}

OrderInit ==
    /\ ClIdle
    /\ GenIdle
    /\ input_s3_url = <<"s3", "://", "bucket", "/", "5gb">>
    /\ io = {}
    /\ objects = <<>>
    /\ apc = "put"
    /\ idx = 0
    /\ listed = <<>>
    /\ all_timestamps = PolarsInit.all_timestamps
    /\ status_counts = PolarsInit.status_counts
    /\ backend = "none"
    /\ result = NoResult

OrderPut ==
    /\ apc = "put"
    /\ Len(objects) < MaxObjects
    /\ \E obj \in OrderPool :
         /\ ItemCount(objects) + Len(Items(obj)) <= MaxRecords
         /\ objects' = Append(objects, obj)
    /\ UNCHANGED <<input_s3_url, io, apc, idx, listed, all_timestamps,
                   status_counts, backend, result, clvars, genvars>>

\* ex-polars main, lines 55-86: the listing yields any object it has not
\* yielded yet
PolarsObjectAnyOrder ==
    /\ apc = "polars"
    /\ \E i \in (1..Len(objects)) \ SeqToSet(listed) :
         /\ LET acc == polars_object(objects[i],
                                     [all_timestamps |-> all_timestamps,
                                      status_counts  |-> status_counts])
            IN /\ all_timestamps' = acc.all_timestamps
               /\ status_counts' = acc.status_counts
         /\ io' = IF objects[i].key = "dir/" THEN io ELSE io \cup {"get_object"}
         /\ listed' = Append(listed, i)
    /\ idx' = idx + 1
    /\ UNCHANGED <<input_s3_url, objects, apc, backend, result, clvars, genvars>>

OrderNext == OrderPut \/ PolarsStart \/ PolarsObjectAnyOrder \/ PolarsReturn

SpecOrder == OrderInit /\ [][OrderNext]_vars

-----------------------------------------------------------------------------
(* What the contract says of a listing                                      *)

\* the class of a 3-digit code
BoundaryClass(code) ==
    IF code \in 200..299 THEN "C2xx"
    ELSE IF code \in 400..499 THEN "C4xx"
    ELSE IF code \in 500..599 THEN "C5xx"
    ELSE "Other"

\* a backend's group as a class
ClassOf(g) ==
    IF g = "2xx" THEN "C2xx"
    ELSE IF g = "4xx" THEN "C4xx"
    ELSE IF g = "5xx" THEN "C5xx"
    ELSE "Other"

\* the class of an event: that of the code of the first match in its message
EventClass(e) ==
    IF "message" \notin DOMAIN e \/ MatchAt(e.message) = {} THEN "Other"
    ELSE BoundaryClass(int(STATUS_CODE_PATTERN(e.message)))

\* the object is fetched, decoded and processed without an exception
ObjectOk(obj) ==
    /\ obj.readable
    /\ json_loads(obj.body).ok
    /\ json_loads(obj.body).kind = "list"
    /\ \A i \in 1..Len(json_loads(obj.body).items) :
           json_loads(obj.body).items[i].t = "obj"

\* no object breaks off in the middle of its records
NoPartial == \A i \in 1..Len(objects) :
                 \A j \in 1..Len(Items(objects[i])) : Items(objects[i])[j].t = "obj"

\* the events of the objects that are read without an exception
RECURSIVE Records(_)
Records(objs) ==
    IF objs = <<>> THEN <<>>
    ELSE (IF ObjectOk(Head(objs)) /\ Head(objs).key # "dir/"
          THEN [i \in 1..Len(Items(Head(objs))) |-> Items(Head(objs))[i].v]
          ELSE <<>>) \o Records(Tail(objs))

CountClass(recs, c) == Cardinality({i \in 1..Len(recs) : EventClass(recs[i]) = c})

Classified(recs) ==
    CountClass(recs, "C2xx") + CountClass(recs, "C4xx") + CountClass(recs, "C5xx")

Stamps(recs) == {recs[i].timestamp : i \in 1..Len(recs)}

\* the main of one of the backends bs has run on an s3 location and is over
Returned(bs) ==
    /\ apc = "done"
    /\ backend \in bs
    /\ urlparse(input_s3_url).scheme = "s3"

-----------------------------------------------------------------------------
(* C1: the denominator of the status rates is count(C2xx) + count(C4xx) +  *)
(* count(C5xx); a record classified Other, also one whose message matches  *)
(* the pattern with a code outside the three ranges, is not counted in it. *)
(* Stated for runs of at least two records whose objects all read cleanly. *)
C1_OtherExcludedFromTotal ==
    (Returned({"polars", "spark"}) /\ NoPartial /\ Len(Records(objects)) >= 2
                  /\ Classified(Records(objects)) > 0)
    => LET recs  == Records(objects)
           total == Classified(recs)
       IN /\ result.status = "ok"
          /\ result.rate_2xx = round4(CountClass(recs, "C2xx"), total)
          /\ result.rate_4xx = round4(CountClass(recs, "C4xx"), total)
          /\ result.rate_5xx = round4(CountClass(recs, "C5xx"), total)

(* C2: logs_per_second is 0.0 whenever the run has fewer than 2 records or *)
(* max(timestamp) = min(timestamp); such a run neither fails nor returns   *)
(* an infinite value.                                                      *)
C2_DegenerateIsZero ==
    (Returned({"polars", "spark"}) /\ NoPartial
        /\ (Len(Records(objects)) < 2
            \/ Max(Stamps(Records(objects))) = Min(Stamps(Records(objects)))))
    => /\ result.status = "ok"
       /\ result.logs_per_second = Zero

(* C3: the three rates are all 0.0 only when no record is classified       *)
(* C2xx/C4xx/C5xx; a run of exactly one record, classified C2xx, has       *)
(* rate_2xx = 1.0, rate_4xx = 0.0 and rate_5xx = 0.0.                      *)
C3_RatesWheneverClassified ==
    (Returned({"polars", "spark"}) /\ NoPartial /\ Classified(Records(objects)) > 0)
    => /\ result.status = "ok"
       /\ ~(result.rate_2xx = Zero /\ result.rate_4xx = Zero /\ result.rate_5xx = Zero)
       /\ (Len(Records(objects)) = 1 /\ CountClass(Records(objects), "C2xx") = 1)
              => (/\ result.rate_2xx = Fin(10000)
                  /\ result.rate_4xx = Zero
                  /\ result.rate_5xx = Zero)

(* C4: every 3-digit code is mapped to exactly one class, 200..299 to C2xx, *)
(* 400..499 to C4xx, 500..599 to C5xx and every other code to Other; a     *)
(* message the pattern does not match, or no message field, is Other.      *)
C4_ClassifierBoundaries ==
    engine # "none" =>
        /\ message \in ThreeDigit
               => ClassOf(group) = BoundaryClass(int(SubSeq(message, 2, 4)))
        /\ (message = Absent \/ MatchAt(message) = {}) => ClassOf(group) = "Other"

C4_Witness ==
    /\ engine = "spark"
    /\ message = Code("2", "9", "9")
    /\ group = "2xx"

(* C5: an object whose fetch, decode or record processing fails            *)
(* contributes no record: the Result is the Result of the remaining        *)
(* objects alone, wherever the failing object is listed.                   *)
C5_FailingObjectContributesNothing ==
    Returned({"polars"}) => result = polars_main(SelectSeq(objects, ObjectOk))

(* C11: the four backends return the same Result on the same stored        *)
(* objects: the same logs_per_second, rate_2xx, rate_4xx and rate_5xx, also *)
(* on a listing with records classified Other, with a single record, or    *)
(* with an object that cannot be read.  Stated on the listings every       *)
(* backend is modelled on (Spark: those without an unreadable object).     *)
C11_BackendsAgree ==
    (/\ Returned({"polars", "spark", "pandas", "duckdb"})
     /\ \A i \in 1..Len(objects) : FrameClean(objects[i]))
    => /\ result = polars_main(objects)
       /\ result = pandas_main(objects, TRUE)
       /\ result = duckdb_main(objects, TRUE)
       /\ (objects # <<>> /\ \A i \in 1..Len(objects) : SparkClean(objects[i]))
              => result = spark_main(spark_read_json(objects))

\* the permutations of 1..n, and a sequence read in the order f
Perms(n) == {f \in [1..n -> 1..n] : \A i, j \in 1..n : f[i] = f[j] => i = j}

Permute(seq, f) == [i \in 1..Len(seq) |-> seq[f[i]]]

\* the listing with the elements of the array of object i in the order f
Reordered(objs, i, f) ==
    [k \in 1..Len(objs) |->
        IF k = i THEN File(json_dumps_list(Permute(Items(objs[i]), f)))
        ELSE objs[k]]

(* C12: for a fixed set of stored objects the Result does not depend on    *)
(* the order in which the objects are listed, nor on the order of the      *)
(* records within an object: the run over any listing order returns what   *)
(* the run over every other order returns, and so does a repeated run.     *)
(* The order within an object is varied for the objects that are read      *)
(* without an exception.                                                   *)
C12_OrderIndependent ==
    Returned({"polars"}) =>
        /\ \A f \in Perms(Len(objects)) : polars_main(Permute(objects, f)) = result
        /\ \A i \in 1..Len(objects) :
               ObjectOk(objects[i]) =>
                   \A f \in Perms(Len(Items(objects[i]))) :
                       polars_main(Reordered(objects, i, f)) = result

\* a run over two objects that differ, the second one first
C12_Witness ==
    /\ Returned({"polars"})
    /\ listed = <<2, 1>>
    /\ Len(Items(objects[1])) = 2
    /\ Items(objects[1])[1] # Items(objects[1])[2]
    /\ ObjectOk(objects[1])
    /\ ObjectOk(objects[2])
    /\ Len(Items(objects[2])) = 1
    /\ result.logs_per_second = round4(3, 30)
    /\ result.rate_2xx # Zero

\* the listed objects whose fetch, decode or processing raises
FailedObjects(objs) ==
    Cardinality({i \in 1..Len(objs) : objs[i].key # "dir/" /\ ~ObjectOk(objs[i])})

\* the fields of a Result that hold the primary result
PrimaryFields == {"status", "logs_per_second", "rate_2xx", "rate_4xx", "rate_5xx"}

(* C13: per-object failures are counted and surfaced: after an aggregation *)
(* run in which f >= 1 objects fail to be read or decoded, what main        *)
(* returns carries, besides the rates, the count f.                        *)
C13_FailureCountSurfaced ==
    (/\ Returned({"polars", "pandas"})
     /\ result.status = "ok"
     /\ FailedObjects(objects) > 0)
    => \E k \in DOMAIN result \ PrimaryFields : result[k] = FailedObjects(objects)

(* C14: in every backend an input location whose scheme is not s3 is       *)
(* rejected before any I/O: no client or session is created, nothing is    *)
(* listed or read, and main returns no Result but raises.                  *)
C14_NonS3Rejected ==
    (apc = "done" /\ urlparse(input_s3_url).scheme # "s3")
    => /\ io = {}
       /\ result = ValueError

-----------------------------------------------------------------------------
(* generator.py: the event stream                                           *)

MaxFiles  == 2      \* num_files
MaxEvents == 12     \* events_per_file

seed        == 42   \* random.seed(a=42)
max_workers == 20   \* ThreadPoolExecutor(max_workers=20)

statuses == <<200, 201, 202, 203, 400, 401, 402, 403, 404, 500>>
services == <<"training", "evaluation", "inference", "monitoring">>

\* The module-level generator of `random`: a deterministic function of its
\* seed.  A linear congruential generator stands for the Mersenne Twister.
random_seed(a) == a
random_step(s) == (s * 75 + 74) % 65537

random_choice(seq, s)   == seq[(s % Len(seq)) + 1]
random_randint(a, b, s) == a + (s % (b - a + 1))

\* The zone of a host that observes daylight saving time, in seconds of
\* local time counted from the local midnight of the day the clocks go
\* forward: at gap_start local time jumps ahead by gap_len.
Zone == [gap_start |-> 7200, gap_len |-> 3600, std_offset |-> -18000]

\* datetime.timestamp() of a naive datetime: local time to POSIX time.  A
\* local time inside the gap does not exist and is read with the offset in
\* force before the transition (fold = 0).
timestamp(t, zone) ==
    IF zone = "utc" THEN t
    ELSE IF t < Zone.gap_start + Zone.gap_len THEN t - Zone.std_offset
    ELSE t - Zone.std_offset - Zone.gap_len

\* f"{status_code}" of a number of three digits
Str3(n) == <<DigitStr[(n \div 100) + 1], DigitStr[((n \div 10) % 10) + 1],
             DigitStr[(n % 10) + 1]>>

\* lines 76, 79: the generator's frame when its body starts running
generator_start(now0) == [rng |-> random_seed(seed), now |-> now0]

\* lines 81-87: one pass of the loop, up to the yield
next_event(g, zone) ==
    LET s1          == random_step(g.rng)
        status_code == random_choice(statuses, s1)
        s2          == random_step(s1)
        now1        == g.now + random_randint(1, 300, s2)
        s3          == random_step(s2)
    IN [event |-> [service   |-> random_choice(services, s3),
                   timestamp |-> timestamp(now1, zone),
                   message   |-> <<PREFIX>> \o Str3(status_code)],
        g     |-> [rng |-> s3, now |-> now1]]

\* a batch one event short
RECURSIVE event_batch_short(_, _, _)
event_batch_short(g, k, zone) ==
    IF k <= 1 THEN [events |-> <<>>, g |-> g]
    ELSE LET e    == next_event(g, zone)
             rest == event_batch_short(e.g, k - 1, zone)
         IN [events |-> <<e.event>> \o rest.events, g |-> rest.g]

\* line 37: [next(event_generator) for _ in range(events_per_file)]
RECURSIVE event_batch(_, _, _)
event_batch(g, k, zone) ==
    IF k = 0 THEN [events |-> <<>>, g |-> g]
    ELSE LET e    == next_event(g, zone)
             rest == event_batch(e.g, k - 1, zone)
         IN [events |-> <<e.event>> \o rest.events, g |-> rest.g]

-----------------------------------------------------------------------------
(* generator.py: the writers                                                *)

\* _LocalWriter.__call__, line 54
LocalPayload(events) ==
    Join([i \in 1..Len(events) |-> json_dumps(events[i])], Tok("\n"))

\* _S3Writer.__call__, line 69: json.dumps of its argument, the batch
S3Payload(events) ==
    json_dumps_list([i \in 1..Len(events) |-> json_dumps(events[i])])

Payload(w, events) == IF w = "local" THEN LocalPayload(events) ELSE S3Payload(events)

\* uuid.uuid4(): a name no earlier call has returned
uuid4(used) == Max(used \cup {0}) + 1

Finished(f) == f.state \in {"done", "error"}

\* wait that returns at the first failed write
wait_first_exception(futs) ==
    \/ \A i \in 1..Len(futs) : Finished(futs[i])
    \/ \E i \in 1..Len(futs) : futs[i].state = "error"

\* line 43 and the exit of the with block: concurrent.futures.wait(futures)
\* and executor.shutdown(wait=True) return when every future has finished
wait(futs) == \A i \in 1..Len(futs) : Finished(futs[i])

Pending(futs) == {i \in 1..Len(futs) : futs[i].state = "pending"}
Running(futs) == {i \in 1..Len(futs) : futs[i].state = "running"}

\* the times datetime.now() may return: shortly before the clocks go forward
WallPool == {Zone.gap_start - 2, Zone.gap_start - 1}

-----------------------------------------------------------------------------
(* generator.py: main, its worker threads, and the read back               *)

GenInit ==
    /\ ClIdle
    /\ AggIdle
    /\ tz \in {"utc", "dst"}
    /\ run = "first"
    /\ gpc = "start"
    /\ num_files \in 1..MaxFiles
    /\ events_per_file \in 1..MaxEvents
    /\ writer \in {"local", "s3"}
    /\ wall = 0
    /\ gen = [rng |-> 0, now |-> 0]
    /\ stream = <<>>
    /\ first_stream = <<>>
    /\ futures = <<>>
    /\ uuids = {}
    /\ sink = {}
    /\ readback = {}

\* lines 32, 76-79: the generator's body starts at the first next()
GeneratorStart ==
    /\ gpc = "start"
    /\ \E now0 \in WallPool :
         /\ now0 >= wall
         /\ wall' = now0
         /\ gen' = generator_start(now0)
    /\ gpc' = "loop"
    /\ UNCHANGED <<tz, run, num_files, events_per_file, writer, stream,
                   first_stream, futures, uuids, sink, readback, clvars, aggvars>>

\* lines 35-40: the main thread pulls one batch and submits it
Dispatch ==
    /\ gpc = "loop"
    /\ Len(futures) < num_files
    /\ LET b == event_batch(gen, events_per_file, tz)
       IN /\ gen' = b.g
          /\ stream' = stream \o b.events
          /\ futures' = Append(futures, [events |-> b.events, state |-> "pending",
                                         name |-> 0])
    /\ UNCHANGED <<tz, run, gpc, num_files, events_per_file, writer, wall,
                   first_stream, uuids, sink, readback, clvars, aggvars>>

\* line 35: the range is exhausted
LoopEnd ==
    /\ gpc = "loop"
    /\ Len(futures) = num_files
    /\ gpc' = "wait"
    /\ UNCHANGED <<tz, run, num_files, events_per_file, writer, wall, gen, stream,
                   first_stream, futures, uuids, sink, readback, clvars, aggvars>>

\* lines 43-44: main returns
WaitReturn ==
    /\ gpc = "wait"
    /\ wait(futures)
    /\ gpc' = "returned"
    /\ UNCHANGED <<tz, run, num_files, events_per_file, writer, wall, gen, stream,
                   first_stream, futures, uuids, sink, readback, clvars, aggvars>>

\* a pool thread takes the oldest queued work item
WorkerTake ==
    /\ Pending(futures) # {}
    /\ Cardinality(Running(futures)) < max_workers
    /\ futures' = [futures EXCEPT ![Min(Pending(futures))].state = "running"]
    /\ UNCHANGED <<tz, run, gpc, num_files, events_per_file, writer, wall, gen,
                   stream, first_stream, uuids, sink, readback, clvars, aggvars>>

\* lines 52-58 / 68-72: the writer call returns
WriteOk ==
    \E i \in Running(futures) :
        LET name == uuid4(uuids)
        IN /\ uuids' = uuids \cup {name}
           /\ sink' = {o \in sink : o.name # name}
                      \cup {[name |-> name, body |-> Payload(writer, futures[i].events)]}
           /\ futures' = [futures EXCEPT ![i].state = "done", ![i].name = name]
           /\ UNCHANGED <<tz, run, gpc, num_files, events_per_file, writer, wall, gen,
                          stream, first_stream, readback, clvars, aggvars>>

\* lines 52-58 / 68-72: the writer call raises; the future keeps the
\* exception.  open() or put_object failed and nothing is stored, or (local
\* writer) file.write failed and an empty file is left.
WriteFail ==
    \E i \in Running(futures) :
        LET name == uuid4(uuids)
        IN /\ uuids' = uuids \cup {name}
           /\ \/ sink' = sink
              \/ /\ writer = "local"
                 /\ sink' = {o \in sink : o.name # name}
                            \cup {[name |-> name, body |-> <<>>]}
           /\ futures' = [futures EXCEPT ![i].state = "error", ![i].name = name]
           /\ UNCHANGED <<tz, run, gpc, num_files, events_per_file, writer, wall, gen,
                          stream, first_stream, readback, clvars, aggvars>>

\* lines 111-114: main is called again, with a new generator and a writer
\* on another prefix
NextRun ==
    /\ gpc = "returned"
    /\ run = "first"
    /\ run' = "second"
    /\ gpc' = "start"
    /\ first_stream' = stream
    /\ stream' = <<>>
    /\ futures' = <<>>
    /\ sink' = {}
    /\ readback' = {}
    /\ UNCHANGED <<tz, num_files, events_per_file, writer, wall, gen, uuids,
                   clvars, aggvars>>

\* ex-polars main, lines 64-86, on one object of the finished run
ReadBack ==
    /\ gpc = "returned"
    /\ \E o \in sink :
         /\ \A r \in readback : r.name # o.name
         /\ readback' = readback \cup
                {[name |-> o.name,
                  acc  |-> polars_object(File(o.body), PolarsInit)]}
    /\ UNCHANGED <<tz, run, gpc, num_files, events_per_file, writer, wall, gen,
                   stream, first_stream, futures, uuids, sink, clvars, aggvars>>

GenNext ==
    \/ GeneratorStart
    \/ Dispatch
    \/ LoopEnd
    \/ WaitReturn
    \/ WorkerTake
    \/ WriteOk
    \/ WriteFail
    \/ NextRun
    \/ ReadBack

SpecGen == GenInit /\ [][GenNext]_vars

-----------------------------------------------------------------------------
(* What the contract says of a generator run                                *)

\* the first n events of the stream of a generator started at g (rng is
\* never negative: the test has the frame evaluated before the next call)
RECURSIVE StreamFrom(_, _, _)
StreamFrom(g, n, zone) ==
    IF n = 0 \/ g.rng < 0 THEN <<>>
    ELSE LET e == next_event(g, zone)
         IN <<e.event>> \o StreamFrom(e.g, n - 1, zone)

\* the generator's frame after n events
RECURSIVE FrameAfter(_, _, _)
FrameAfter(g, n, zone) ==
    IF n = 0 \/ g.rng < 0 THEN g
    ELSE LET e == next_event(g, zone)
         IN FrameAfter(e.g, n - 1, zone)

IsObj(tok) == tok.t = "obj"

\* the events a stored text holds, in order
EventsOf(body) ==
    LET objs == SelectSeq(body, IsObj) IN [i \in 1..Len(objs) |-> objs[i].v]

AllDone == \A i \in 1..Len(futures) : futures[i].state = "done"

(* C6: main is a blocking barrier with best-effort fan-out: when main has  *)
(* returned, each of the num_files writes has been submitted, attempted    *)
(* and has finished, by success or by failure, whatever the interleaving   *)
(* of the pool and whichever writes failed.                                *)
C6_BlockingBarrier ==
    gpc = "returned" =>
        /\ Len(futures) = num_files
        /\ \A i \in 1..Len(futures) : Finished(futures[i]) /\ futures[i].name # 0

C6_Witness ==
    /\ gpc = "returned"
    /\ num_files = 2
    /\ futures[1].state = "error"
    /\ futures[2].state = "done"

(* C7: when every write succeeds, main leaves exactly num_files stored     *)
(* objects with distinct names, each holding exactly events_per_file       *)
(* events, the i-th dispatched object holding the stream's events          *)
(* i*K .. i*K+K-1 in stream order; the stream is advanced by the           *)
(* dispatching thread alone, num_files * events_per_file times.            *)
C7_ObjectsHoldStreamSlices ==
    (gpc = "returned" /\ AllDone) =>
        LET K  == events_per_file
            g0 == generator_start(wall)
            st == StreamFrom(g0, num_files * K, tz)
        IN /\ Cardinality(sink) = num_files
           /\ Cardinality({o.name : o \in sink}) = num_files
           /\ \A i \in 1..num_files :
                  \E o \in sink :
                      /\ o.name = futures[i].name
                      /\ Len(EventsOf(o.body)) = K
                      /\ EventsOf(o.body) = SubSeq(st, (i - 1) * K + 1, i * K)
           /\ gen = FrameAfter(g0, num_files * K, tz)

C7_Witness ==
    /\ gpc = "returned"
    /\ AllDone
    /\ num_files = 2
    /\ events_per_file = 2
    /\ writer = "local"
    /\ Cardinality(sink) = 2

(* C8: for a fixed seed two generator runs that pull the same number of    *)
(* events produce the same sequence of events (service, timestamp,         *)
(* message), independent of when each run starts.                          *)
C8_RunsIdentical ==
    (run = "second" /\ gpc = "returned") => stream = first_stream

(* C9: in any generated stream consecutive event timestamps never          *)
(* decrease, inside every batch and across batches in dispatch order.      *)
C9_TimestampsNonDecreasing ==
    \A i \in 1..(Len(stream) - 1) : stream[i].timestamp <= stream[i + 1].timestamp

GroupOfClass(c) == IF c = "C2xx" THEN "2xx" ELSE IF c = "C4xx" THEN "4xx" ELSE "5xx"

(* C10: for both writers and any K >= 1 the stored bytes are what the      *)
(* aggregation reader parses: every written event is read back as one      *)
(* record whose class is that of the code in its message; none is lost,    *)
(* none becomes Other.                                                     *)
C10_RoundTrip ==
    \A r \in readback :
        \A i \in 1..Len(futures) :
            (futures[i].state = "done" /\ futures[i].name = r.name) =>
                LET evs == futures[i].events
                IN /\ r.acc.all_timestamps = [j \in 1..Len(evs) |-> evs[j].timestamp]
                   /\ r.acc.status_counts["total"] = Len(evs)
                   /\ \A c \in {"C2xx", "C4xx", "C5xx"} :
                          r.acc.status_counts[GroupOfClass(c)] = CountClass(evs, c)

=============================================================================
